---- MODULE Spec2Model ----
(***************************************************************************)
(* hf2-cli: the flash and verify operations of hf2-cli/src/main.rs, as a   *)
(* state machine whose steps are the command exchanges with the device.    *)
(*                                                                         *)
(* One behaviour is one run of the program: the arguments are fixed by     *)
(* Init, every hf2:: call is one action that either succeeds or returns    *)
(* Err (and .expect() then panics), and the arithmetic on u32 values is    *)
(* done modulo WordModulus, with the two outcomes a build can give on      *)
(* overflow (panic with overflow checks, wrap-around without).             *)
(* Dmesg::send of src/dmesg.rs (the dmesg command) is modelled at the      *)
(* level of its calls of xmit, rx and pread.                               *)
(***************************************************************************)
EXTENDS Integers, Sequences, FiniteSets, TLC

(***************************************************************************)
(* Bounds of the model.                                                    *)
(***************************************************************************)
\* u32 values are 0 .. WordModulus - 1 (stands for 2^32).
WordModulus == 8
\* Longest firmware file, in bytes.
MaxLen == 7

\* Byte values a firmware file and the device flash hold.
Bytes == {0, 1}
\* bininfo.flash_page_size values a device reports.
PageSizes == {2, 3}
\* bininfo.max_message_size values a device reports (max_pages 0, 1, 2, and
\* 4 and 5, whose products with a page size do not fit in a word).
MessageSizes == {4, 6, 8, 12, 14}
\* --address arguments: the bottom, the middle and the top of the address space.
Addresses == {0, 1, WordModulus - 4}

(***************************************************************************)
(* Firmware files: every length up to MaxLen, filled by one of the         *)
(* patterns (all zero, all one, and two mixed ones).                       *)
(***************************************************************************)
Patterns == {<<0, 0>>, <<1, 1>>, <<0, 0, 1, 1>>, <<1, 0, 0>>}

PatternFile(pat, len) == [k \in 1..len |-> pat[((k - 1) % Len(pat)) + 1]]

Files == {PatternFile(pat, len) : pat \in Patterns, len \in 0..MaxLen}

\* Device flash before the run: erased to zero, or holding an older image.
InitialFlash == {[a \in 0..(WordModulus - 1) |-> 0],
                 [a \in 0..(WordModulus - 1) |-> IF (a % 4) \in {2, 3} THEN 1 ELSE 0]}

(***************************************************************************)
(* u32 arithmetic.                                                         *)
(***************************************************************************)
Overflows(x) == x < 0 \/ x >= WordModulus

Wrap(x) == x % WordModulus

Min(a, b) == IF a < b THEN a ELSE b

(***************************************************************************)
(* CRC-16/XMODEM (crc_any::CRCu16::crc16xmodem): polynomial 0x1021,        *)
(* initial value 0, no reflection, no final xor.                           *)
(***************************************************************************)
RECURSIVE BitXor(_, _)
BitXor(a, b) ==
    IF a = 0 THEN b
    ELSE IF b = 0 THEN a
    ELSE (((a % 2) + (b % 2)) % 2) + 2 * BitXor(a \div 2, b \div 2)

RECURSIVE CrcShift(_, _)
CrcShift(crc, n) ==
    IF n = 0 THEN crc
    ELSE CrcShift(IF crc >= 32768 THEN BitXor((crc * 2) % 65536, 4129)
                  ELSE (crc * 2) % 65536, n - 1)

RECURSIVE Crc16From(_, _)
Crc16From(crc, bytes) ==
    IF bytes = << >> THEN crc
    ELSE Crc16From(CrcShift(BitXor(crc, Head(bytes) * 256), 8), Tail(bytes))

\* xmodem.digest(&page); xmodem.get_crc()
Crc16(bytes) == Crc16From(0, bytes)

(***************************************************************************)
(* State.                                                                  *)
(***************************************************************************)
VARIABLES
    cmd,              \* args.cmd: "flash", "verify" or "dmesg"
    file,             \* the bytes of the firmware file
    address,          \* --address
    skip_checksum,    \* --skip-checksum
    overflow_checks,  \* the build: TRUE panics on integer overflow, FALSE wraps
    pc,               \* the statement the program is at
    bininfo,          \* the BinInfo response
    binary,           \* Vec<u8>: the file, then padded
    padded_size,
    top_address,
    max_pages,
    steps,
    target_address,   \* the loop variable of the checksum loop
    device_checksums,
    page_index,       \* the loop variable of the page loops
    binary_checksums,
    sent,             \* the commands issued to the device so far, in order
    flashMem,         \* the device's flash, byte by byte
    flashBefore,      \* history: the device's flash when the program started
    stdout,           \* the lines printed
    panic,            \* the panic that ended the process, NoPanic while it runs
    attempt,          \* history: 1 in the first run of the program, 2 in a rerun
    previous,         \* history: how the run before this one ended
    io,               \* Dmesg::send: its calls of xmit, rx and pread, in order
    rsp,              \* Dmesg::send: the CommandResponse rx returned
    result            \* Dmesg::send: the Result it returned

args == <<cmd, file, address, skip_checksum, overflow_checks, flashBefore>>

locals == <<bininfo, binary, padded_size, top_address, max_pages, steps,
            target_address, device_checksums, page_index, binary_checksums>>

history == <<attempt, previous>>

channel == <<io, rsp, result>>

vars == <<args, pc, locals, sent, flashMem, stdout, panic, history, channel>>

NoPanic == [msg |-> "", left |-> << >>, right |-> << >>]

Panic(m) == [msg |-> m, left |-> << >>, right |-> << >>]

NoBinInfo == [mode |-> "Unknown", flash_page_size |-> 0, max_message_size |-> 0]

\* One command exchange, as the device saw it. page_index is the index of the
\* page a WriteFlashPage carries (-1 for the other commands).
Exchange(op, a, n, d, i, ok) ==
    [op |-> op, address |-> a, num_pages |-> n, data |-> d, page_index |-> i, ok |-> ok]

\* No run before this one.
NoPrevious == [pc |-> "none", bininfo |-> NoBinInfo]

NoResponse == [status |-> "None", data |-> << >>]

NoResult == [returned |-> FALSE, ok |-> FALSE, value |-> << >>]

\* What a run starts with, whatever its arguments.
Fresh ==
    /\ bininfo = NoBinInfo
    /\ binary = << >>
    /\ padded_size = 0
    /\ top_address = 0
    /\ max_pages = 0
    /\ steps = 0
    /\ target_address = 0
    /\ device_checksums = << >>
    /\ page_index = 0
    /\ binary_checksums = << >>
    /\ sent = << >>
    /\ flashBefore = flashMem
    /\ stdout = << >>
    /\ panic = NoPanic
    /\ attempt = 1
    /\ previous = NoPrevious
    /\ io = << >>
    /\ rsp = NoResponse
    /\ result = NoResult

\* hf2 flash, hf2 verify
InitOrchestrator ==
    /\ cmd \in {"flash", "verify"}
    /\ file \in Files
    /\ address \in Addresses
    /\ skip_checksum \in (IF cmd = "flash" THEN BOOLEAN ELSE {FALSE})
    /\ overflow_checks \in BOOLEAN
    /\ pc = "bin_info"
    /\ flashMem \in InitialFlash
    /\ Fresh

\* hf2 dmesg: no file, no address; the flash plays no part.
InitDmesg ==
    /\ cmd = "dmesg"
    /\ file = << >>
    /\ address = 0
    /\ skip_checksum = FALSE
    /\ overflow_checks \in BOOLEAN
    /\ pc = "dmesg_xmit"
    /\ flashMem \in InitialFlash
    /\ Fresh

Init == InitOrchestrator \/ InitDmesg

(***************************************************************************)
(* The device (hf2 library calls and the bootloader behind them).          *)
(***************************************************************************)
\* The flash_page_size bytes of device flash starting at address a.
DevicePage(a) ==
    [k \in 1..bininfo.flash_page_size |-> flashMem[(a + k - 1) % WordModulus]]

\* The response to ChecksumPages(a, n): one checksum per requested page.
ChecksumPagesResult(a, n) ==
    [k \in 1..n |-> Crc16(DevicePage(a + (k - 1) * bininfo.flash_page_size))]

\* The device flash after WriteFlashPage(a, data).
WrittenFlash(a, data) ==
    [x \in 0..(WordModulus - 1) |->
        IF \E k \in 1..Len(data) : (a + k - 1) % WordModulus = x
        THEN data[(CHOOSE k \in 1..Len(data) : (a + k - 1) % WordModulus = x)]
        ELSE flashMem[x]]

(***************************************************************************)
(* Pages of the local image: binary.chunks(flash_page_size).enumerate().   *)
(***************************************************************************)
NumChunks == (Len(binary) + bininfo.flash_page_size - 1) \div bininfo.flash_page_size

Chunk(i) ==
    SubSeq(binary, i * bininfo.flash_page_size + 1,
           Min((i + 1) * bininfo.flash_page_size, Len(binary)))

\* Mutant of PaddedNumPages: one page more than the whole pages of the file.
PaddedNumPagesPlusOne(len, size) == Min((len \div size) + 1, WordModulus - 1)

\* (binary.len() as f64 / f64::from(flash_page_size)).ceil() as u32
PaddedNumPages(len, size) == Min((len + size - 1) \div size, WordModulus - 1)

Zeros(n) == [k \in 1..n |-> 0]

(***************************************************************************)
(* Steps the two operations share (flash and verify repeat the same code). *)
(***************************************************************************)
Modes == {"Bootloader", "UserApplication"}

\* Mutant of Abort: the Err is dropped and the program runs on.
AbortIgnored(p) == pc' = pc /\ panic' = p

\* The process ends in a panic: .expect() on an Err, an overflow, an index.
Abort(p) == pc' = "panicked" /\ panic' = p

\* let bininfo = hf2::bin_info(&d).expect("bin_info failed");
\* startModes: the modes in which the caller goes on to StartFlash.
BinInfoExchange(startModes) ==
    /\ pc = "bin_info"
    /\ \/ \E mode \in Modes, size \in PageSizes, msg \in MessageSizes :
            /\ bininfo' = [mode |-> mode, flash_page_size |-> size,
                           max_message_size |-> msg]
            /\ sent' = Append(sent, Exchange("BinInfo", 0, 0, << >>, -1, TRUE))
            /\ pc' = IF mode \in startModes THEN "start_flash" ELSE "pad"
            /\ panic' = panic
       \/ /\ sent' = Append(sent, Exchange("BinInfo", 0, 0, << >>, -1, FALSE))
          /\ Abort(Panic("bin_info failed"))
          /\ bininfo' = bininfo
    /\ UNCHANGED <<args, history, channel, binary, padded_size, top_address,
                   max_pages, steps, target_address, device_checksums,
                   page_index, binary_checksums, flashMem, stdout>>

\* let _ = hf2::start_flash(&d).expect("start_flash failed");
StartFlashExchange ==
    /\ pc = "start_flash"
    /\ \/ /\ sent' = Append(sent, Exchange("StartFlash", 0, 0, << >>, -1, TRUE))
          /\ pc' = "pad"
          /\ panic' = panic
       \/ /\ sent' = Append(sent, Exchange("StartFlash", 0, 0, << >>, -1, FALSE))
          /\ Abort(Panic("start_flash failed"))
    /\ UNCHANGED <<args, history, channel, locals, flashMem, stdout>>

\* Read the file and pad it with zeros to the page size; then go to after(n),
\* n being the padded image's number of pages.
PadBinary(afterEmpty, afterPages) ==
    LET len == Len(file)
        size == bininfo.flash_page_size
        padded_num_pages == PaddedNumPages(len, size)
        product == padded_num_pages * size
    IN  /\ pc = "pad"
        /\ IF Overflows(product) /\ overflow_checks
           THEN /\ Abort(Panic("attempt to multiply with overflow"))
                /\ binary' = file
                /\ padded_size' = padded_size
           ELSE IF Wrap(product) < len
           THEN \* padded_size as usize - binary.len() underflows: a panic, or
                \* a loop that pushes zeros until memory runs out
                /\ Abort(Panic(IF overflow_checks
                               THEN "attempt to subtract with overflow"
                               ELSE "memory allocation failed"))
                /\ binary' = file
                /\ padded_size' = Wrap(product)
           ELSE /\ binary' = file \o Zeros(Wrap(product) - len)
                /\ padded_size' = Wrap(product)
                /\ pc' = IF Wrap(product) = 0 THEN afterEmpty ELSE afterPages
                /\ panic' = panic
        /\ UNCHANGED <<args, history, channel, bininfo, top_address,
                       max_pages, steps, target_address, device_checksums,
                       page_index, binary_checksums, sent, flashMem, stdout>>

\* Mutant of MaxPagesOf: one more checksum's room is held back.
MaxPagesOfLess(max_message_size) == (max_message_size \div 2) - 3

\* let max_pages = bininfo.max_message_size / 2 - 2;
MaxPagesOf(max_message_size) == (max_message_size \div 2) - 2

\* let num_pages = if pages_left < max_pages { pages_left } else { max_pages };
NumPagesOf(pages_left, most) == IF pages_left < most THEN pages_left ELSE most

\* top_address, max_pages, steps and the step_by iterator of the checksum loop;
\* after: where the program goes on when the loop has no iteration.
ChecksumSetup(after) ==
    LET sum == address + padded_size
        diff == MaxPagesOf(bininfo.max_message_size)
        product == Wrap(diff) * bininfo.flash_page_size
    IN  /\ pc = "checksum_setup"
        /\ IF Overflows(sum) /\ overflow_checks
           THEN /\ Abort(Panic("attempt to add with overflow"))
                /\ UNCHANGED <<top_address, max_pages, steps, target_address>>
           ELSE IF Overflows(diff) /\ overflow_checks
           THEN /\ Abort(Panic("attempt to subtract with overflow"))
                /\ UNCHANGED <<top_address, max_pages, steps, target_address>>
           ELSE IF Overflows(product) /\ overflow_checks
           THEN /\ Abort(Panic("attempt to multiply with overflow"))
                /\ UNCHANGED <<top_address, max_pages, steps, target_address>>
           ELSE IF Wrap(product) = 0
           THEN \* step_by(0)
                /\ Abort(Panic("assertion failed: step != 0"))
                /\ UNCHANGED <<top_address, max_pages, steps, target_address>>
           ELSE /\ top_address' = Wrap(sum)
                /\ max_pages' = Wrap(diff)
                /\ steps' = Wrap(product)
                /\ target_address' = address
                /\ pc' = IF address < Wrap(sum) THEN "checksum" ELSE after
                /\ panic' = panic
        /\ UNCHANGED <<args, history, channel, bininfo, binary, padded_size,
                       device_checksums, page_index, binary_checksums, sent,
                       flashMem, stdout>>

\* One iteration of the checksum loop: one ChecksumPages exchange.
ChecksumBatch(after) ==
    LET pages_left == (top_address - target_address) \div bininfo.flash_page_size
        num_pages == NumPagesOf(pages_left, max_pages)
        next == target_address + steps
    IN  /\ pc = "checksum"
        /\ \/ /\ sent' = Append(sent, Exchange("ChecksumPages", target_address,
                                               num_pages, << >>, -1, TRUE))
              /\ device_checksums' =
                     device_checksums \o ChecksumPagesResult(target_address, num_pages)
              /\ IF ~Overflows(next) /\ next < top_address
                 THEN target_address' = next /\ pc' = "checksum"
                 ELSE target_address' = target_address /\ pc' = after
              /\ panic' = panic
           \/ /\ sent' = Append(sent, Exchange("ChecksumPages", target_address,
                                               num_pages, << >>, -1, FALSE))
              /\ Abort(Panic("checksum_pages failed"))
              /\ UNCHANGED <<device_checksums, target_address>>
        /\ UNCHANGED <<args, history, channel, bininfo, binary, padded_size,
                       top_address, max_pages, steps, page_index,
                       binary_checksums, flashMem, stdout>>

(***************************************************************************)
(* flash                                                                   *)
(***************************************************************************)
\* Mutant of FlashStartModes: the comparison inverted.
FlashStartModesInverted == {mode \in Modes : mode = "Bootloader"}

\* if bininfo.mode != hf2::BinInfoMode::Bootloader (flash)
FlashStartModes == {mode \in Modes : mode # "Bootloader"}

FlashBinInfo == cmd = "flash" /\ BinInfoExchange(FlashStartModes)

FlashStartFlash == cmd = "flash" /\ StartFlashExchange

\* Mutant of FlashBranch: the flag is ignored.
FlashBranchIgnoresSkip == "checksum_setup"

\* if skip_checksum { .. } else { .. }
FlashBranch == IF skip_checksum THEN "write_all" ELSE "checksum_setup"

FlashPad ==
    /\ cmd = "flash"
    /\ PadBinary(IF skip_checksum THEN "reset" ELSE "checksum_setup", FlashBranch)

\* bininfo.flash_page_size * page_index as u32
PageOffset(i) == bininfo.flash_page_size * i

\* Mutant of PageChanged: the comparison inverted.
PageChangedInverted(i) == Crc16(Chunk(i)) = device_checksums[i + 1]

\* xmodem.get_crc() != device_checksums[page_index]
PageChanged(i) == Crc16(Chunk(i)) # device_checksums[i + 1]

\* Mutant of NextPage: the loop ends after its first iteration.
NextPageOnlyOnce(loop) ==
    /\ page_index' = page_index + 1
    /\ pc' = "reset"

\* Mutant of NextPage: the checksums are fetched again before the next page.
NextPageRefetches(loop) ==
    /\ page_index' = page_index + 1
    /\ pc' = IF page_index + 1 < NumChunks THEN "checksum_setup" ELSE "reset"

\* The page loop goes on with the next page, or is over.
NextPage(loop) ==
    /\ page_index' = page_index + 1
    /\ pc' = IF page_index + 1 < NumChunks THEN loop ELSE "reset"

\* Compute the target address of page page_index and write the page.
WritePage(loop) ==
    LET page == Chunk(page_index)
        product == PageOffset(page_index)
        sum == address + Wrap(product)
        target == Wrap(sum)
    IN  IF Overflows(product) /\ overflow_checks
        THEN /\ Abort(Panic("attempt to multiply with overflow"))
             /\ UNCHANGED <<page_index, sent, flashMem>>
        ELSE IF Overflows(sum) /\ overflow_checks
        THEN /\ Abort(Panic("attempt to add with overflow"))
             /\ UNCHANGED <<page_index, sent, flashMem>>
        ELSE \/ /\ sent' = Append(sent, Exchange("WriteFlashPage", target, 0,
                                                 page, page_index, TRUE))
                /\ flashMem' = WrittenFlash(target, page)
                /\ NextPage(loop)
                /\ panic' = panic
             \/ \* the exchange fails, before or after the device wrote the page
                /\ sent' = Append(sent, Exchange("WriteFlashPage", target, 0,
                                                 page, page_index, FALSE))
                /\ flashMem' \in {flashMem, WrittenFlash(target, page)}
                /\ Abort(Panic("write_flash_page failed"))
                /\ page_index' = page_index

\* One iteration of the loop of skip-checksum mode.
FlashWritePage ==
    /\ cmd = "flash"
    /\ pc = "write_all"
    /\ WritePage("write_all")
    /\ UNCHANGED <<args, history, channel, bininfo, binary, padded_size,
                   top_address, max_pages, steps, target_address,
                   device_checksums, binary_checksums, stdout>>

FlashChecksumSetup ==
    /\ cmd = "flash"
    /\ ChecksumSetup(IF NumChunks > 0 THEN "write_changed" ELSE "reset")

FlashChecksumPages ==
    /\ cmd = "flash"
    /\ ChecksumBatch(IF NumChunks > 0 THEN "write_changed" ELSE "reset")

\* One iteration of the loop that writes only the changed pages.
FlashWriteChanged ==
    /\ cmd = "flash"
    /\ pc = "write_changed"
    /\ IF page_index >= Len(device_checksums)
       THEN /\ Abort(Panic("index out of bounds"))
            /\ UNCHANGED <<page_index, sent, flashMem>>
       ELSE IF PageChanged(page_index)
       THEN WritePage("write_changed")
       ELSE /\ NextPage("write_changed")
            /\ UNCHANGED <<sent, flashMem, panic>>
    /\ UNCHANGED <<args, history, channel, bininfo, binary, padded_size,
                   top_address, max_pages, steps, target_address,
                   device_checksums, binary_checksums, stdout>>

\* println!("Success"); let _ = hf2::reset_into_app(&d).expect(..);
FlashReset ==
    /\ cmd = "flash"
    /\ pc = "reset"
    /\ stdout' = Append(stdout, "Success")
    /\ \/ /\ sent' = Append(sent, Exchange("ResetIntoApp", 0, 0, << >>, -1, TRUE))
          /\ pc' = "done"
          /\ panic' = panic
       \/ /\ sent' = Append(sent, Exchange("ResetIntoApp", 0, 0, << >>, -1, FALSE))
          /\ Abort(Panic("reset_into_app failed"))
    /\ UNCHANGED <<args, history, channel, locals, flashMem>>

(***************************************************************************)
(* verify                                                                  *)
(***************************************************************************)
\* Mutant of VerifyStartModes: StartFlash whatever the mode.
VerifyStartModesAll == Modes

\* if bininfo.mode != hf2::BinInfoMode::Bootloader (verify)
VerifyStartModes == {mode \in Modes : mode # "Bootloader"}

VerifyBinInfo == cmd = "verify" /\ BinInfoExchange(VerifyStartModes)

VerifyStartFlash == cmd = "verify" /\ StartFlashExchange

VerifyPad == cmd = "verify" /\ PadBinary("checksum_setup", "checksum_setup")

VerifyChecksumSetup == cmd = "verify" /\ ChecksumSetup("compare")

VerifyChecksumPages == cmd = "verify" /\ ChecksumBatch("compare")

\* Mutant of BinaryChecksums: the checksum of the first page, for every page.
BinaryChecksumsOfFirstPage == [k \in 1..NumChunks |-> Crc16(Chunk(0))]

\* The checksums of the local pages.
BinaryChecksums == [k \in 1..NumChunks |-> Crc16(Chunk(k - 1))]

\* Mutant of VerifyCompare: verify ends as flash does, with ResetIntoApp.
VerifyCompareThenReset ==
    /\ cmd = "verify"
    /\ pc = "compare"
    /\ binary_checksums' = BinaryChecksums
    /\ stdout' = Append(stdout, "Success")
    /\ sent' = Append(sent, Exchange("ResetIntoApp", 0, 0, << >>, -1, TRUE))
    /\ pc' = "done"
    /\ UNCHANGED <<args, history, channel, bininfo, binary, padded_size,
                   top_address, max_pages, steps, target_address,
                   device_checksums, page_index, flashMem, panic>>

\* Mutant of AssertEqFailed: only the first pair that differs is shown.
AssertEqFailedAtFirst(left, right) ==
    LET first == CHOOSE k \in DOMAIN left :
                     /\ left[k] # right[k]
                     /\ \A j \in 1..(k - 1) : left[j] = right[j]
    IN  [msg |-> "assertion failed: left equals right",
         left |-> <<left[first]>>,
         right |-> <<right[first]>>]

\* The panic of assert_eq!(left, right): its message shows both slices whole.
AssertEqFailed(left, right) ==
    [msg |-> "assertion failed: left equals right", left |-> left, right |-> right]

\* Compute the local checksums, assert_eq! them with the device's, print.
VerifyCompare ==
    /\ cmd = "verify"
    /\ pc = "compare"
    /\ binary_checksums' = BinaryChecksums
    /\ IF Len(device_checksums) < Len(BinaryChecksums)
       THEN /\ Abort(Panic("range end index out of range"))
            /\ stdout' = stdout
       ELSE IF BinaryChecksums # SubSeq(device_checksums, 1, Len(BinaryChecksums))
       THEN /\ Abort(AssertEqFailed(BinaryChecksums,
                                    SubSeq(device_checksums, 1, Len(BinaryChecksums))))
            /\ stdout' = stdout
       ELSE /\ stdout' = Append(stdout, "Success")
            /\ pc' = "done"
            /\ panic' = panic
    /\ UNCHANGED <<args, history, channel, bininfo, binary, padded_size,
                   top_address, max_pages, steps, target_address,
                   device_checksums, page_index, sent, flashMem>>

(***************************************************************************)
(* hf2 dmesg: Dmesg::send and the dmesg function of the command line.      *)
(***************************************************************************)
DmesgID == 16

\* What rx can hand back as the status and the payload of a response.
Statuses == {"Success", "ParseError", "ExecutionError"}

\* 104 is 'h'; 195 169 is the two-byte form of U+00E9; 195 or 169 alone is
\* not UTF-8.
PayloadBytes == {104, 195, 169}

Payloads == {<< >>} \cup [1..1 -> PayloadBytes] \cup [1..2 -> PayloadBytes]

\* The errors of the transport.
TransportErrors == {"Transmission", "Parse"}

\* xmit: the command went out, or an error.
XmitOutcomes ==
    {[ok |-> TRUE, error |-> "None"]}
        \cup {[ok |-> FALSE, error |-> e] : e \in {"Transmission"}}

\* rx: one whole response, or an error.
RxOutcomes ==
    {[ok |-> TRUE, error |-> "None", status |-> st, data |-> d] :
        st \in Statuses, d \in Payloads}
        \cup {[ok |-> FALSE, error |-> e, status |-> "None", data |-> << >>] :
                 e \in TransportErrors}

\* core::str::from_utf8 on the one-byte and two-byte forms (the payloads
\* hold no lead byte of a longer form): the code points, or invalid.
RECURSIVE FromUtf8(_)
FromUtf8(bytes) ==
    IF bytes = << >> THEN [ok |-> TRUE, chars |-> << >>]
    ELSE IF Head(bytes) < 128
    THEN LET rest == FromUtf8(Tail(bytes))
         IN  [ok |-> rest.ok,
              chars |-> IF rest.ok THEN <<Head(bytes)>> \o rest.chars ELSE << >>]
    ELSE IF /\ Head(bytes) \in 194..223
            /\ Len(bytes) >= 2
            /\ bytes[2] \in 128..191
    THEN LET rest == FromUtf8(Tail(Tail(bytes)))
             char == (Head(bytes) - 192) * 64 + (bytes[2] - 128)
         IN  [ok |-> rest.ok,
              chars |-> IF rest.ok THEN <<char>> \o rest.chars ELSE << >>]
    ELSE [ok |-> FALSE, chars |-> << >>]

Ok(v) == [returned |-> TRUE, ok |-> TRUE, value |-> v]

Err(e) == [returned |-> TRUE, ok |-> FALSE, value |-> e]

\* A call of xmit (arg: the command), of rx or of pread (arg: the payload).
Call(name, arg, ok) == [call |-> name, arg |-> arg, ok |-> ok]

\* Command::new(Self::ID, 0, vec![])
DmesgCommand == [id |-> DmesgID, tag |-> 0, data |-> << >>]

\* Mutant of DmesgSendXmit: a transmit that fails is tried again.
DmesgSendXmitRetries ==
    /\ cmd = "dmesg"
    /\ pc = "dmesg_xmit"
    /\ \E out \in XmitOutcomes :
        /\ io' = Append(io, Call("xmit", DmesgCommand, out.ok))
        /\ pc' = IF out.ok THEN "dmesg_rx" ELSE "dmesg_xmit"
    /\ UNCHANGED <<args, history, locals, sent, flashMem, stdout, panic, rsp, result>>

\* xmit(command, d)?
DmesgSendXmit ==
    /\ cmd = "dmesg"
    /\ pc = "dmesg_xmit"
    /\ \E out \in XmitOutcomes :
        /\ io' = Append(io, Call("xmit", DmesgCommand, out.ok))
        /\ IF out.ok
           THEN /\ pc' = "dmesg_rx"
                /\ UNCHANGED result
           ELSE /\ pc' = "dmesg_returned"
                /\ result' = Err(<<out.error>>)
    /\ UNCHANGED <<args, history, locals, sent, flashMem, stdout, panic, rsp>>

\* The status a response must have for its payload to be read.
DmesgAccepts(st) == st = "Success"

\* let rsp = rx(d)?, the test of rsp.status, pread_with, Ok(res)
DmesgSendRx ==
    /\ cmd = "dmesg"
    /\ pc = "dmesg_rx"
    /\ \E out \in RxOutcomes :
        IF ~out.ok
        THEN /\ io' = Append(io, Call("rx", << >>, FALSE))
             /\ result' = Err(<<out.error>>)
             /\ UNCHANGED rsp
        ELSE /\ rsp' = [status |-> out.status, data |-> out.data]
             /\ IF ~DmesgAccepts(out.status)
                THEN /\ io' = Append(io, Call("rx", << >>, TRUE))
                     /\ result' = Err(<<"CommandNotRecognized">>)
                ELSE LET res == FromUtf8(out.data)
                     IN  /\ io' = io \o <<Call("rx", << >>, TRUE),
                                       Call("pread", out.data, res.ok)>>
                         /\ result' = IF res.ok THEN Ok(res.chars)
                                      ELSE Err(<<"Parse">>)
    /\ pc' = "dmesg_returned"
    /\ UNCHANGED <<args, history, locals, sent, flashMem, stdout, panic>>

\* let dmesg = hf2::dmesg(&d).expect("dmesg failed"); println!
DmesgPrint ==
    /\ cmd = "dmesg"
    /\ pc = "dmesg_returned"
    /\ IF result.ok
       THEN /\ stdout' = Append(stdout, result.value)
            /\ pc' = "done"
            /\ UNCHANGED panic
       ELSE /\ Abort(Panic("dmesg failed"))
            /\ UNCHANGED stdout
    /\ UNCHANGED <<args, history, channel, locals, sent, flashMem>>

(***************************************************************************)
(* The program.                                                            *)
(***************************************************************************)
Next ==
    \/ FlashBinInfo
    \/ FlashStartFlash
    \/ FlashPad
    \/ FlashWritePage
    \/ FlashChecksumSetup
    \/ FlashChecksumPages
    \/ FlashWriteChanged
    \/ FlashReset
    \/ VerifyBinInfo
    \/ VerifyStartFlash
    \/ VerifyPad
    \/ VerifyChecksumSetup
    \/ VerifyChecksumPages
    \/ VerifyCompare
    \/ DmesgSendXmit
    \/ DmesgSendRx
    \/ DmesgPrint

Spec == Init /\ [][Next]_vars

(***************************************************************************)
(* hf2 flash, run again on the same device with the same file and address  *)
(* once the first run has ended (in Success or in a panic).                *)
(***************************************************************************)
MaxAttempts == 2

\* The files of the reruns: three to five bytes, one or two pages and a bit.
RetryFiles == {f \in Files : Len(f) \in 3..5}

InitRetry ==
    /\ InitOrchestrator
    /\ cmd = "flash"
    /\ file \in RetryFiles

\* The process has ended; the same command line is run again, without
\* --skip-checksum, on the flash as the first run left it.
Rerun ==
    /\ cmd = "flash"
    /\ pc \in {"done", "panicked"}
    /\ attempt < MaxAttempts
    /\ attempt' = attempt + 1
    /\ previous' = [pc |-> pc, bininfo |-> bininfo]
    /\ skip_checksum' = FALSE
    /\ flashBefore' = flashMem
    /\ pc' = "bin_info"
    /\ bininfo' = NoBinInfo
    /\ binary' = << >>
    /\ padded_size' = 0
    /\ top_address' = 0
    /\ max_pages' = 0
    /\ steps' = 0
    /\ target_address' = 0
    /\ device_checksums' = << >>
    /\ page_index' = 0
    /\ binary_checksums' = << >>
    /\ sent' = << >>
    /\ stdout' = << >>
    /\ panic' = NoPanic
    /\ UNCHANGED <<cmd, file, address, overflow_checks, flashMem, channel>>

NextRetry ==
    \/ FlashBinInfo
    \/ FlashStartFlash
    \/ FlashPad
    \/ FlashWritePage
    \/ FlashChecksumSetup
    \/ FlashChecksumPages
    \/ FlashWriteChanged
    \/ FlashReset
    \/ Rerun

SpecRetry == InitRetry /\ [][NextRetry]_vars

(***************************************************************************)
(* Vocabulary of the properties.                                           *)
(***************************************************************************)
\* The positions in sent of the exchanges of command op.
Issued(op) == {k \in DOMAIN sent : sent[k].op = op}

\* The WriteFlashPage exchanges, in the order they were issued.
IsWrite(m) == m.op = "WriteFlashPage"

Writes == SelectSeq(sent, IsWrite)

\* Page i was written, and the exchange succeeded.
WrittenOk(i) ==
    \E k \in Issued("WriteFlashPage") : sent[k].page_index = i /\ sent[k].ok

DiffFlash == cmd = "flash" /\ ~skip_checksum

SkipFlash == cmd = "flash" /\ skip_checksum

\* The program has gone through the padding and runs on.
Padded ==
    /\ cmd \in {"flash", "verify"}
    /\ pc \in {"write_all", "checksum_setup", "checksum", "write_changed", "reset",
               "compare", "done"}

\* The page loop of flash is over.
PagesOver == cmd = "flash" /\ pc \in {"reset", "done"}

(***************************************************************************)
(* C1  In checksum-diff mode flash writes page i exactly when the          *)
(* CRC-16/XMODEM of local page i differs from the checksum the device      *)
(* reported at index i: every WriteFlashPage issued carries a page whose   *)
(* checksums differ, every page the loop has gone through whose checksums  *)
(* differ was written, and the loop goes through all the pages.            *)
(***************************************************************************)
C1_WriteIffChecksumDiffers ==
    DiffFlash =>
        /\ \A k \in Issued("WriteFlashPage") :
              /\ sent[k].page_index < Len(device_checksums)
              /\ Crc16(Chunk(sent[k].page_index))
                     # device_checksums[sent[k].page_index + 1]
        /\ \A i \in 0..(page_index - 1) :
              Crc16(Chunk(i)) # device_checksums[i + 1]
                  => \E k \in Issued("WriteFlashPage") : sent[k].page_index = i
        /\ PagesOver => page_index = NumChunks

\* Local [A, B, C] against device [A, X, C]: only page 1 is written.
C1_Witness ==
    /\ DiffFlash
    /\ pc = "done"
    /\ NumChunks = 3
    /\ Len(device_checksums) >= 2
    /\ Crc16(Chunk(0)) = device_checksums[1]
    /\ Crc16(Chunk(1)) # device_checksums[2]
    /\ Crc16(Chunk(2)) = device_checksums[3]
    /\ {sent[k].page_index : k \in Issued("WriteFlashPage")} = {1}

(***************************************************************************)
(* C2  ResetIntoApp is issued at most once and is the last command of the  *)
(* session; when it is issued every earlier command succeeded and every    *)
(* page that had to be written (all pages in skip-checksum mode, the pages *)
(* whose checksums differ in checksum-diff mode) has been written          *)
(* successfully; and a flash that runs to its end has issued it.           *)
(***************************************************************************)
C2_ResetOnceLastAfterWrites ==
    cmd = "flash" =>
        /\ Cardinality(Issued("ResetIntoApp")) <= 1
        /\ \A k \in Issued("ResetIntoApp") :
              /\ k = Len(sent)
              /\ \A j \in 1..(k - 1) : sent[j].ok
              /\ \A i \in 0..(NumChunks - 1) :
                    (skip_checksum \/ Crc16(Chunk(i)) # device_checksums[i + 1])
                        => WrittenOk(i)
        /\ pc = "done" => Cardinality(Issued("ResetIntoApp")) = 1

C2_Witness ==
    /\ cmd = "flash"
    /\ pc = "done"
    /\ Len(Writes) >= 2
    /\ sent[Len(sent)].op = "ResetIntoApp"
    /\ sent[Len(sent) - 1].op = "WriteFlashPage"

(***************************************************************************)
(* C3  A failed command is the last command of its session: once any       *)
(* exchange of flash or verify fails, the process has ended and nothing    *)
(* more is sent (no later page write, no ResetIntoApp).                    *)
(***************************************************************************)
C3_FailureAborts ==
    \A k \in DOMAIN sent :
        ~sent[k].ok => (k = Len(sent) /\ pc = "panicked")

\* A page write fails with pages still to write.
C3_Witness ==
    /\ cmd = "flash"
    /\ pc = "panicked"
    /\ Len(sent) >= 3
    /\ sent[Len(sent)].op = "WriteFlashPage"
    /\ ~sent[Len(sent)].ok
    /\ sent[Len(sent)].page_index + 1 < NumChunks
    /\ Issued("ResetIntoApp") = {}

(***************************************************************************)
(* C4  In skip-checksum mode flash issues no ChecksumPages, and its        *)
(* WriteFlashPage exchanges carry the pages 0, 1, 2, ... in this order,    *)
(* each once; when the loop is over, every page of the padded image has    *)
(* been written, whatever the device held.                                 *)
(***************************************************************************)
C4_SkipModeWritesEveryPage ==
    SkipFlash =>
        /\ Issued("ChecksumPages") = {}
        /\ \A k \in 1..Len(Writes) : Writes[k].page_index = k - 1
        /\ PagesOver => Len(Writes) = NumChunks

\* Every page is written although the device already holds the image.
C4_Witness ==
    /\ SkipFlash
    /\ pc = "done"
    /\ Len(Writes) = 3
    /\ \A k \in 1..3 : Writes[k].data = DevicePage(Writes[k].address)
    /\ flashMem \in InitialFlash

(***************************************************************************)
(* C5  (as claimed) Checksum batching, in checksum-diff flash and in       *)
(* verify: every ChecksumPages request asks for at most                    *)
(* max_pages = max_message_size/2 - 2 pages, the requests go up in         *)
(* address, all but the last ask for exactly max_pages pages, and when the *)
(* loop is over their number is ceil(P / max_pages), P the number of pages *)
(* of the padded image.                                                    *)
(***************************************************************************)
IsChecksumPages(m) == m.op = "ChecksumPages"

Requests == SelectSeq(sent, IsChecksumPages)

\* The checksum loop is over and the program runs on.
BatchingOver ==
    /\ cmd = "verify" \/ DiffFlash
    /\ pc \in {"write_changed", "compare", "reset", "done"}

Batching(most) ==
    /\ \A k \in 1..Len(Requests) : Requests[k].num_pages <= most
    /\ \A k \in 1..(Len(Requests) - 1) :
          /\ Requests[k].address < Requests[k + 1].address
          /\ Requests[k].num_pages = most
    /\ BatchingOver => Len(Requests) = (NumChunks + most - 1) \div most

C5_Batching ==
    (cmd = "verify" \/ DiffFlash) =>
        Batching((bininfo.max_message_size \div 2) - 2)

\* The same, for the runs in which address + padded_size and
\* max_pages * flash_page_size fit in a u32.
C5_BatchingWithoutOverflow ==
    (/\ cmd = "verify" \/ DiffFlash
     /\ ~Overflows(address + padded_size)
     /\ ~Overflows(MaxPagesOf(bininfo.max_message_size) * bininfo.flash_page_size)) =>
        Batching((bininfo.max_message_size \div 2) - 2)

(***************************************************************************)
(* C6  Padding: once the image is padded its length is the smallest        *)
(* multiple of flash_page_size that is not less than the file's length,    *)
(* its first bytes are the file's, and every byte after them is 0.         *)
(***************************************************************************)
C6_Padding ==
    Padded =>
        /\ Len(binary) % bininfo.flash_page_size = 0
        /\ Len(binary) >= Len(file)
        /\ Len(binary) - Len(file) < bininfo.flash_page_size
        /\ SubSeq(binary, 1, Len(file)) = file
        /\ \A k \in (Len(file) + 1)..Len(binary) : binary[k] = 0

\* A file of two pages and a bit, with a 1 in it, padded to three pages.
C6_Witness ==
    /\ Padded
    /\ Len(file) = 2 * bininfo.flash_page_size + 1
    /\ Len(binary) = 3 * bininfo.flash_page_size
    /\ file[Len(file)] = 1

(***************************************************************************)
(* C7  (as claimed) Every WriteFlashPage of flash carries exactly          *)
(* flash_page_size bytes, those of page i of the padded image, and the     *)
(* target address address + i * flash_page_size, i being the index of the  *)
(* page; no two writes of a run have the same target address.              *)
(***************************************************************************)
C7_WriteAddressAndData ==
    cmd = "flash" =>
        \A k \in Issued("WriteFlashPage") :
            LET i == sent[k].page_index
                size == bininfo.flash_page_size
            IN  /\ Len(sent[k].data) = size
                /\ sent[k].data = SubSeq(binary, i * size + 1, (i + 1) * size)
                /\ sent[k].address = address + i * size
                /\ \A j \in Issued("WriteFlashPage") :
                      j # k => sent[j].address # sent[k].address

\* The same, for the pages whose address + i * flash_page_size fits in a u32.
C7_WriteAddressAndDataWithoutOverflow ==
    cmd = "flash" =>
        \A k \in Issued("WriteFlashPage") :
            LET i == sent[k].page_index
                size == bininfo.flash_page_size
            IN  /\ Len(sent[k].data) = size
                /\ sent[k].data = SubSeq(binary, i * size + 1, (i + 1) * size)
                /\ ~Overflows(address + i * size)
                       => sent[k].address = address + i * size
                /\ \A j \in Issued("WriteFlashPage") :
                      j # k => sent[j].address # sent[k].address

(***************************************************************************)
(* C8  flash queries BinInfo once, as the first command of the session;    *)
(* StartFlash is issued only when the mode reported is not Bootloader,     *)
(* then once, as the second command (right after BinInfo, before any       *)
(* ChecksumPages or WriteFlashPage), and flash does not go on without it.  *)
(***************************************************************************)
C8_FlashBinInfoThenStartFlash ==
    cmd = "flash" =>
        /\ pc # "bin_info" => Issued("BinInfo") = {1}
        /\ pc = "bin_info" => sent = << >>
        /\ \A k \in Issued("StartFlash") :
              k = 2 /\ sent[1].ok /\ bininfo.mode # "Bootloader"
        /\ (bininfo.mode = "UserApplication" /\ pc # "start_flash")
              => Issued("StartFlash") = {2}

C8_Witness ==
    /\ cmd = "flash"
    /\ pc = "done"
    /\ bininfo.mode = "UserApplication"
    /\ sent[2].op = "StartFlash"
    /\ Len(Writes) >= 1

(***************************************************************************)
(* C9  (as claimed) verify never issues StartFlash, whatever the mode.     *)
(***************************************************************************)
C9_VerifyNeverStartsFlash ==
    cmd = "verify" => Issued("StartFlash") = {}

(***************************************************************************)
(* C9  (amended) verify issues StartFlash exactly when BinInfo reports a   *)
(* mode other than Bootloader, then once and right after BinInfo; it       *)
(* issues none when the mode is Bootloader.                                *)
(***************************************************************************)
C9_VerifyStartsFlashOutsideBootloader ==
    cmd = "verify" =>
        /\ \A k \in Issued("StartFlash") :
              k = 2 /\ sent[1].ok /\ bininfo.mode # "Bootloader"
        /\ (bininfo.mode = "UserApplication" /\ pc # "start_flash")
              => Issued("StartFlash") = {2}
        /\ bininfo.mode = "Bootloader" => Issued("StartFlash") = {}

C9_Witness ==
    /\ cmd = "verify"
    /\ pc = "done"
    /\ bininfo.mode = "UserApplication"
    /\ sent[2].op = "StartFlash"
    /\ sent[2].ok
    /\ Issued("ChecksumPages") # {}

(***************************************************************************)
(* C10  verify is read-only: in every verify run, whether it succeeds,     *)
(* finds a mismatch or fails, no WriteFlashPage, ResetIntoApp or           *)
(* ResetIntoBootloader is issued, and the device's flash (hence every page *)
(* checksum) is what it was when the run started.                          *)
(***************************************************************************)
C10_VerifyReadOnly ==
    cmd = "verify" =>
        /\ Issued("WriteFlashPage") = {}
        /\ Issued("ResetIntoApp") = {}
        /\ Issued("ResetIntoBootloader") = {}
        /\ flashMem = flashBefore

\* A verify that fetched checksums and found a mismatch.
C10_Witness ==
    /\ cmd = "verify"
    /\ pc = "panicked"
    /\ panic.left # panic.right
    /\ Len(Requests) >= 2

(***************************************************************************)
(* C11  verify reports success exactly when, for every page index i below  *)
(* the local page count, the CRC of the local padded page i equals the     *)
(* checksum the device reported at index i; device checksums at indices    *)
(* at or beyond the local page count play no part.                         *)
(***************************************************************************)
\* verify has come to its comparison and gone through it.
VerifyCompared ==
    /\ cmd = "verify"
    /\ \/ pc = "done"
       \/ /\ pc = "panicked"
          /\ panic.msg \in {"range end index out of range",
                            "assertion failed: left equals right"}

\* The device reported, at every index of a local page, that page's CRC.
LocalMatchesDevice ==
    /\ Len(device_checksums) >= NumChunks
    /\ \A i \in 0..(NumChunks - 1) : Crc16(Chunk(i)) = device_checksums[i + 1]

Succeeded == \E k \in DOMAIN stdout : stdout[k] = "Success"

C11_VerifySuccessIffChecksumsMatch ==
    cmd = "verify" =>
        /\ Succeeded <=> pc = "done"
        /\ Succeeded => VerifyCompared
        /\ VerifyCompared => (Succeeded <=> LocalMatchesDevice)

\* A success over two pages that are not all zero, with more device
\* checksums than local pages.
C11_Witness ==
    /\ VerifyCompared
    /\ Succeeded
    /\ NumChunks >= 2
    /\ \E k \in DOMAIN binary : binary[k] = 1
    /\ Len(device_checksums) > NumChunks

\* A failure on the second page only.
C11_WitnessMismatch ==
    /\ VerifyCompared
    /\ ~Succeeded
    /\ NumChunks >= 2
    /\ Len(device_checksums) >= 2
    /\ Crc16(Chunk(0)) = device_checksums[1]
    /\ Crc16(Chunk(1)) # device_checksums[2]

(***************************************************************************)
(* C12  (as claimed) When verify finds mismatches its failure report       *)
(* lists exactly the mismatching pages: for each of them its index, the    *)
(* expected (local) and the observed (device) checksum, and no index       *)
(* whose checksums agree.                                                  *)
(***************************************************************************)
\* verify ended in the panic of its assert_eq!.
MismatchReported ==
    /\ cmd = "verify"
    /\ pc = "panicked"
    /\ panic.msg = "assertion failed: left equals right"

\* The page indices at which the local and the device checksum differ.
Mismatching ==
    {i \in 0..(NumChunks - 1) :
        \/ i + 1 > Len(device_checksums)
        \/ Crc16(Chunk(i)) # device_checksums[i + 1]}

\* The page indices whose checksums the report shows.
ReportedIndices == {k - 1 : k \in DOMAIN panic.left}

C12_ReportListsMismatchesOnly ==
    MismatchReported =>
        /\ ReportedIndices = Mismatching
        /\ \A i \in Mismatching :
              /\ panic.left[i + 1] = Crc16(Chunk(i))
              /\ panic.right[i + 1] = device_checksums[i + 1]

(***************************************************************************)
(* C12  (amended) When verify finds mismatches its failure report shows    *)
(* the whole sequence of local checksums and the device checksums at the   *)
(* same indices, one pair per local page in page order, so every           *)
(* mismatching page is in it with its expected and its observed checksum   *)
(* at the position of its index; the pages that agree are shown as well.   *)
(***************************************************************************)
C12_ReportShowsBothSequences ==
    /\ MismatchReported =>
          /\ Mismatching # {}
          /\ Len(panic.left) = NumChunks
          /\ Len(panic.right) = NumChunks
          /\ \A i \in 0..(NumChunks - 1) :
                /\ panic.left[i + 1] = Crc16(Chunk(i))
                /\ panic.right[i + 1] = device_checksums[i + 1]
    /\ (VerifyCompared /\ Len(device_checksums) >= NumChunks /\ Mismatching # {})
          => MismatchReported

\* A report over three pages: two of them differ, one agrees.
C12_Witness ==
    /\ MismatchReported
    /\ NumChunks = 3
    /\ Cardinality(Mismatching) = 2
    /\ Mismatching # {0, 1}

(***************************************************************************)
(* C13  (as claimed) After a flash of the file at the address that was     *)
(* aborted after any prefix of its commands, a rerun in checksum-diff      *)
(* mode in which all commands succeed writes exactly the pages whose       *)
(* device checksum still differs and ends with every device page in the    *)
(* image range equal in checksum to the local page; a rerun right after a  *)
(* successful flash issues no WriteFlashPage.  (SpecRetry)                 *)
(***************************************************************************)
RunEnded == pc \in {"done", "panicked"}

AllCommandsSucceeded == \A k \in DOMAIN sent : sent[k].ok

\* The device reports in the rerun the geometry it reported before, one
\* with which checksum batches hold at least a page and the step is a u32.
SameDevice ==
    /\ previous.bininfo.flash_page_size \in {0, bininfo.flash_page_size}
    /\ previous.bininfo.max_message_size \in {0, bininfo.max_message_size}
    /\ MaxPagesOf(bininfo.max_message_size) >= 1
    /\ ~Overflows(MaxPagesOf(bininfo.max_message_size) * bininfo.flash_page_size)

\* A rerun in which the device answered every command, at its end.
RerunEnded ==
    /\ cmd = "flash"
    /\ attempt = 2
    /\ RunEnded
    /\ Issued("BinInfo") # {}
    /\ AllCommandsSucceeded
    /\ SameDevice

\* The device page of local page i as the run found it.
PageBefore(i) ==
    [k \in 1..bininfo.flash_page_size |->
        flashBefore[(address + PageOffset(i) + k - 1) % WordModulus]]

RetryRepairs ==
    /\ pc = "done"
    /\ \A i \in 0..(NumChunks - 1) :
          /\ Crc16(DevicePage(address + PageOffset(i))) = Crc16(Chunk(i))
          /\ WrittenOk(i) <=> Crc16(PageBefore(i)) # Crc16(Chunk(i))
    /\ previous.pc = "done" => Len(Writes) = 0

C13_RetryIdempotent == RerunEnded => RetryRepairs

\* The same, for the runs in which address + padded_size fits in a u32.
C13_RetryIdempotentWithoutOverflow ==
    (RerunEnded /\ ~Overflows(address + Len(binary))) => RetryRepairs

\* The rerun of an aborted flash writes a page and leaves another alone.
C13_WitnessRepair ==
    /\ RerunEnded
    /\ pc = "done"
    /\ previous.pc = "panicked"
    /\ Len(Writes) = 1
    /\ NumChunks = 2
    /\ flashBefore # flashMem

\* The rerun of a flash that wrote pages and ended in Success.
C13_WitnessNothingToDo ==
    /\ RerunEnded
    /\ pc = "done"
    /\ previous.pc = "done"
    /\ \E k \in DOMAIN binary : binary[k] = 1

(***************************************************************************)
(* C14  (as claimed) A failure of a stage of flash or verify is returned   *)
(* to the caller as an error; a device command that fails does not         *)
(* terminate the process (no panic, no abort).                             *)
(***************************************************************************)
\* A command of flash or verify has failed.
CommandFailed ==
    /\ cmd \in {"flash", "verify"}
    /\ \E k \in DOMAIN sent : ~sent[k].ok

C14_FailureDoesNotTerminate == CommandFailed => pc # "panicked"

\* What the code does: a command that fails ends the process at once in a
\* panic whose message names the stage that failed.
StageMessage(op) ==
    CASE op = "BinInfo" -> "bin_info failed"
      [] op = "StartFlash" -> "start_flash failed"
      [] op = "ChecksumPages" -> "checksum_pages failed"
      [] op = "WriteFlashPage" -> "write_flash_page failed"
      [] op = "ResetIntoApp" -> "reset_into_app failed"

C14_FailurePanicsWithStage ==
    CommandFailed =>
        /\ pc = "panicked"
        /\ ~sent[Len(sent)].ok
        /\ panic.msg = StageMessage(sent[Len(sent)].op)

\* The second ChecksumPages of a run fails.
C14_Witness ==
    /\ CommandFailed
    /\ pc = "panicked"
    /\ Len(Requests) = 2
    /\ panic.msg = "checksum_pages failed"

(***************************************************************************)
(* C15  (as claimed) flash emits its success signal only if every command  *)
(* of the run, the final ResetIntoApp included, succeeded: no run both     *)
(* emits success and ends in failure.                                      *)
(***************************************************************************)
C15_SuccessOnlyAfterReset ==
    (cmd = "flash" /\ Succeeded) =>
        /\ pc # "panicked"
        /\ AllCommandsSucceeded
        /\ \E k \in Issued("ResetIntoApp") : sent[k].ok

\* What does hold: every command before ResetIntoApp succeeded.
C15_SuccessAfterAllButReset ==
    (cmd = "flash" /\ Succeeded) =>
        /\ Issued("ResetIntoApp") = {Len(sent)}
        /\ \A k \in 1..(Len(sent) - 1) : sent[k].ok

(***************************************************************************)
(* C16  (as claimed) When the status of the response to Dmesg is not       *)
(* Success, the command fails with an error that carries the status the    *)
(* device sent, and the payload is never decoded; a DmesgResult is         *)
(* returned only when the status is Success.                               *)
(***************************************************************************)
\* Dmesg::send has returned after a response whose status is not Success.
DmesgRefused ==
    /\ cmd = "dmesg"
    /\ result.returned
    /\ rsp.status \in Statuses \ {"Success"}

PayloadDecoded == \E k \in DOMAIN io : io[k].call = "pread"

C16_StatusCarried ==
    /\ DmesgRefused =>
          /\ ~result.ok
          /\ \E j \in DOMAIN result.value : result.value[j] = rsp.status
          /\ ~PayloadDecoded
    /\ (cmd = "dmesg" /\ result.returned /\ result.ok) => rsp.status = "Success"

\* What does hold: the error is CommandNotRecognized, whatever the status.
C16_RefusedWithoutStatus ==
    /\ DmesgRefused =>
          /\ ~result.ok
          /\ result.value = <<"CommandNotRecognized">>
          /\ ~PayloadDecoded
    /\ (cmd = "dmesg" /\ result.returned /\ result.ok) =>
          /\ rsp.status = "Success"
          /\ PayloadDecoded

\* A response with status ExecutionError and a payload that could be read.
C16_WitnessRefused ==
    /\ DmesgRefused
    /\ rsp.status = "ExecutionError"
    /\ FromUtf8(rsp.data).ok
    /\ Len(rsp.data) = 2

(***************************************************************************)
(* C17  (as claimed) In checksum-diff flash and in verify, for every       *)
(* address and image whose page addresses all fit in 32 bits, once the     *)
(* checksum loop is over the ChecksumPages requests cover the range from   *)
(* address to address + padded length without gap or overlap, and          *)
(* device_checksums has exactly one entry per local page, entry i being    *)
(* the checksum of the device page at address + i * flash_page_size.       *)
(***************************************************************************)
\* The address of every page of the image is a u32.
PagesFit == \A i \in 0..(NumChunks - 1) : ~Overflows(address + PageOffset(i))

\* Where request k ends.
RequestEnd(k) ==
    Requests[k].address + Requests[k].num_pages * bininfo.flash_page_size

RequestsCoverImage ==
    /\ NumChunks > 0 => Len(Requests) > 0
    /\ Len(Requests) > 0 =>
          /\ Requests[1].address = address
          /\ RequestEnd(Len(Requests)) = address + Len(binary)
    /\ \A k \in 1..(Len(Requests) - 1) : Requests[k + 1].address = RequestEnd(k)

OneChecksumPerPage ==
    /\ Len(device_checksums) = NumChunks
    /\ \A i \in 0..(NumChunks - 1) : device_checksums[i + 1] = Crc16(PageBefore(i))

C17_ChecksumsCoverImage ==
    (BatchingOver /\ PagesFit) => (RequestsCoverImage /\ OneChecksumPerPage)

\* The same, for the runs in which address + padded_size and
\* max_pages * flash_page_size fit in a u32.
C17_ChecksumsCoverImageWithoutOverflow ==
    (/\ BatchingOver
     /\ ~Overflows(address + Len(binary))
     /\ ~Overflows(max_pages * bininfo.flash_page_size)) =>
        (RequestsCoverImage /\ OneChecksumPerPage)

\* Three pages fetched in two requests.
C17_WitnessWithoutOverflow ==
    /\ BatchingOver
    /\ ~Overflows(address + Len(binary))
    /\ NumChunks = 3
    /\ Len(Requests) = 2
    /\ device_checksums[1] # device_checksums[2]

(***************************************************************************)
(* C18  flash goes through its phases in the order Idle, ModeChecked,      *)
(* Diffing or SkipDiff, Writing, Rebooting, Done and never back: in        *)
(* checksum-diff mode every ChecksumPages is issued and answered before    *)
(* the first WriteFlashPage and none is issued after a write (the device   *)
(* checksums are a snapshot taken before any write), and from every phase  *)
(* that issues a command the failure of that command leads to Failed.      *)
(***************************************************************************)
\* Idle 0, ModeChecked 1, Diffing 2, (SkipDiff and) Writing 3, Rebooting 4,
\* Done 5, Failed 6.
PhaseOf(p) ==
    CASE p = "bin_info" -> 0
      [] p \in {"start_flash", "pad"} -> 1
      [] p \in {"checksum_setup", "checksum"} -> 2
      [] p \in {"write_all", "write_changed"} -> 3
      [] p = "reset" -> 4
      [] p = "done" -> 5
      [] p = "panicked" -> 6

\* The command a phase issues.
CommandsOf(p) ==
    CASE p = "bin_info" -> {"BinInfo"}
      [] p = "start_flash" -> {"StartFlash"}
      [] p = "checksum" -> {"ChecksumPages"}
      [] p \in {"write_all", "write_changed"} -> {"WriteFlashPage"}
      [] p = "reset" -> {"ResetIntoApp"}
      [] OTHER -> {}

\* The phase whose command op is.
PhaseOfCommand(op) ==
    PhaseOf(CHOOSE p \in {"bin_info", "start_flash", "checksum", "write_all", "reset"} :
                op \in CommandsOf(p))

PhasesInOrder ==
    cmd = "flash" =>
        /\ \A j, k \in DOMAIN sent :
              j < k => /\ PhaseOfCommand(sent[j].op) <= PhaseOfCommand(sent[k].op)
                       /\ sent[j].ok
        /\ skip_checksum => Len(Requests) = 0
        /\ Len(Writes) > 0 => PhaseOf(pc) >= 3
        /\ (sent # << >> /\ ~sent[Len(sent)].ok) => pc = "panicked"

PhaseStep ==
    cmd = "flash" =>
        /\ PhaseOf(pc') >= PhaseOf(pc)
        /\ pc \notin {"done", "panicked"}
        /\ Len(sent') = Len(sent) + 1 =>
              /\ sent'[Len(sent')].op \in CommandsOf(pc)
              /\ ~sent'[Len(sent')].ok => pc' = "panicked"
        /\ Len(Writes) > 0 => device_checksums' = device_checksums
        /\ pc' = "panicked" => PhaseOf(pc) < 5

C18_PhaseOrder == []PhasesInOrder /\ [][PhaseStep]_vars

\* A checksum-diff flash out of user mode that took two requests and a
\* write to get to Done.
C18_Witness ==
    /\ DiffFlash
    /\ pc = "done"
    /\ Cardinality(Issued("StartFlash")) = 1
    /\ Len(Requests) = 2
    /\ Len(Writes) > 0

\* The write of a page fails in the Writing phase: Failed.
C18_WitnessFailed ==
    /\ DiffFlash
    /\ pc = "panicked"
    /\ Len(Writes) = 2
    /\ ~sent[Len(sent)].ok

(***************************************************************************)
(* C19  A command exchange is send, then receive, and is never retried:    *)
(* Dmesg::send transmits its command once and then reads exactly one       *)
(* response; if the transmit fails the error is returned and nothing is    *)
(* read; if the read fails the error is returned and the command is not    *)
(* sent again.  In flash and verify a command is sent only after the       *)
(* response to the one before it was seen.                                 *)
(***************************************************************************)
Calls(name) == {k \in DOMAIN io : io[k].call = name}

Failed(name) == \E k \in Calls(name) : ~io[k].ok

C19_SendThenReceive ==
    /\ cmd = "dmesg" =>
          /\ Calls("xmit") \subseteq {1}
          /\ Calls("rx") \subseteq {2}
          /\ Calls("rx") # {} => io[1].ok
          /\ \A k \in Calls("xmit") : io[k].arg = DmesgCommand
          /\ Failed("xmit") =>
                /\ Len(io) = 1
                /\ result = Err(<<"Transmission">>)
          /\ Failed("rx") =>
                /\ Len(io) = 2
                /\ result.returned /\ ~result.ok
                /\ result.value \in {<<e>> : e \in TransportErrors}
          /\ result.returned =>
                /\ Calls("xmit") = {1}
                /\ io[1].ok => Calls("rx") = {2}
          /\ (result.returned /\ result.ok) => \A k \in DOMAIN io : io[k].ok
    /\ cmd \in {"flash", "verify"} =>
          \A k \in 1..(Len(sent) - 1) : sent[k].ok

\* The read of the response failed: the error is back, after one transmit.
C19_Witness ==
    /\ cmd = "dmesg"
    /\ Failed("rx")
    /\ result.returned
    /\ pc = "panicked"

\* The transmit failed.
C19_WitnessXmit ==
    /\ cmd = "dmesg"
    /\ Failed("xmit")
    /\ result.returned

(***************************************************************************)
(* C20  (as claimed) For every BinInfo with flash_page_size > 0 and        *)
(* max_message_size >= 4 and every non-empty image the checksum loop       *)
(* makes progress: max_pages is at least 1, the address step is positive,  *)
(* every ChecksumPages request asks for at least one page, and the loop    *)
(* ends after finitely many requests without an arithmetic underflow or a  *)
(* zero-step failure.                                                      *)
(***************************************************************************)
\* A non-empty image is padded and the program is to fetch checksums for it.
BatchingInput ==
    /\ cmd = "verify" \/ DiffFlash
    /\ Len(file) > 0
    /\ bininfo.flash_page_size > 0
    /\ Len(binary) = padded_size
    /\ padded_size >= Len(file)

\* max_pages and steps have their values.
SetupDone ==
    \/ pc \in {"checksum", "write_changed", "compare", "reset", "done"}
    \/ pc = "panicked" /\ Len(Requests) > 0

BatchingProgress ==
    /\ panic.msg \notin {"assertion failed: step != 0",
                         "attempt to subtract with overflow"}
    /\ SetupDone => (max_pages >= 1 /\ steps > 0)
    /\ \A k \in DOMAIN Requests : Requests[k].num_pages >= 1
    /\ \A k \in 1..(Len(Requests) - 1) : Requests[k].address < Requests[k + 1].address
    /\ Len(Requests) <= NumChunks

C20_BatchingProgress ==
    (BatchingInput /\ bininfo.max_message_size >= 4) => BatchingProgress

(***************************************************************************)
(* C20  (amended) The same for every BinInfo with flash_page_size > 0,     *)
(* max_message_size >= 6 and (max_message_size / 2 - 2) * flash_page_size  *)
(* less than 2^32.                                                         *)
(***************************************************************************)
C20_BatchingProgressFromSix ==
    (/\ BatchingInput
     /\ bininfo.max_message_size >= 6
     /\ ~Overflows(((bininfo.max_message_size \div 2) - 2) * bininfo.flash_page_size))
        => BatchingProgress

\* Three pages fetched one by one with max_message_size 6.
C20_Witness ==
    /\ BatchingInput
    /\ bininfo.max_message_size = 6
    /\ pc \in {"compare", "write_changed"}
    /\ Len(Requests) = 3
    /\ max_pages = 1

====
